---- MODULE Spec2Model ----
(***************************************************************************)
(* GiftLog (src/app.py): a Flask application over four tables (user,       *)
(* giver, category, gift).  The model keeps the tables as sequences (the   *)
(* primary key of a row is its index: no route deletes a row), the         *)
(* requests in flight through ensure_initial_master, the authenticated     *)
(* sessions, and the last request served with its response.                *)
(*                                                                         *)
(* Text is a sequence of one-character strings, so that strip, lower,      *)
(* replace, LIKE, int() and date parsing are computed character by         *)
(* character.  A missing form field and an empty one are both <<>>: every  *)
(* read in app.py is form.get(k, ""), `if not s`, or type=int, which treat *)
(* the two alike.  Python's None is <<>> and a present value v is <<v>>.   *)
(***************************************************************************)
EXTENDS Integers, Sequences, FiniteSets, TLC

VARIABLES users, givers, categories, gifts, seeded, sessions, pc, last, resp

vars == <<users, givers, categories, gifts, seeded, sessions, pc, last, resp>>
db == <<users, givers, categories, gifts>>

\* ------------------------------------------------------------------ bounds
MaxGifts == 2
MaxExtraRows == 1
MaxInFlight == 2
MaxLen == 4

\* ------------------------------------------------------------ Python values
None == <<>>
Some(v) == <<v>>
Get(o) == o[1]

Range(s) == {s[i] : i \in DOMAIN s}

RECURSIVE SumSeq(_)
SumSeq(s) == IF s = <<>> THEN 0 ELSE s[1] + SumSeq(Tail(s))

RECURSIVE Perms(_)
\* every ordering of a finite set, as sequences
Perms(S) ==
  IF S = {} THEN {<<>>}
  ELSE UNION {{<<x>> \o p : p \in Perms(S \ {x})} : x \in S}

\* -------------------------------------------------------------------- text
BS == "\\"
NL == "\n"

Whitespace == {" ", NL, "\t", "\r"}

RECURSIVE lstrip(_)
lstrip(s) ==
  IF s # <<>> /\ s[1] \in Whitespace THEN lstrip(Tail(s)) ELSE s

RECURSIVE rstrip(_)
rstrip(s) ==
  IF s # <<>> /\ s[Len(s)] \in Whitespace
  THEN rstrip(SubSeq(s, 1, Len(s) - 1)) ELSE s

\* str.strip()
strip(s) == rstrip(lstrip(s))

\* str.lower() on one character of the model's alphabet
LowerChar(c) ==
  CASE c = "A" -> "a"
    [] c = "B" -> "b"
    [] OTHER -> c

\* str.lower()
lower(s) == [i \in DOMAIN s |-> LowerChar(s[i])]

RECURSIVE replace(_, _, _)
\* str.replace(old, new): left to right, non-overlapping; old is not empty
replace(s, old, new) ==
  IF Len(s) < Len(old) THEN s
  ELSE IF SubSeq(s, 1, Len(old)) = old
       THEN new \o replace(SubSeq(s, Len(old) + 1, Len(s)), old, new)
       ELSE <<s[1]>> \o replace(Tail(s), old, new)

escape_ics_newline_first(text) ==
  replace(replace(replace(replace(text,
      <<NL>>, <<BS, "n">>),
      <<BS>>, <<BS, BS>>),
      <<",">>, <<BS, ",">>),
      <<";">>, <<BS, ";">>)

escape_ics(text) ==
  replace(replace(replace(replace(text,
      <<BS>>, <<BS, BS>>),
      <<NL>>, <<BS, "n">>),
      <<",">>, <<BS, ",">>),
      <<";">>, <<BS, ";">>)

\* the reverse of the four substitutions of escape_ics, last one first
unescape_ics(text) ==
  replace(replace(replace(replace(text,
      <<BS, ";">>, <<";">>),
      <<BS, ",">>, <<",">>),
      <<BS, "n">>, <<NL>>),
      <<BS, BS>>, <<BS>>)

\* ------------------------------------------------------------------ numbers
Digits == {"0", "1", "2", "3", "4", "5", "6", "7", "8", "9"}
DigitChars == <<"0", "1", "2", "3", "4", "5", "6", "7", "8", "9">>

DigitValue(c) == CHOOSE n \in 0..9 : DigitChars[n + 1] = c

RECURSIVE DigitsValue(_)
DigitsValue(s) ==
  IF s = <<>> THEN 0
  ELSE DigitsValue(SubSeq(s, 1, Len(s) - 1)) * 10 + DigitValue(s[Len(s)])

\* int(s): surrounding whitespace, an optional sign, decimal digits;
\* None stands for the ValueError
ParseInt(s) ==
  LET t == strip(s)
      signed == t # <<>> /\ t[1] \in {"+", "-"}
      body == IF signed THEN Tail(t) ELSE t
  IN IF body # <<>> /\ \A i \in DOMAIN body : body[i] \in Digits
     THEN Some(IF signed /\ t[1] = "-"
               THEN 0 - DigitsValue(body) ELSE DigitsValue(body))
     ELSE None

\* request.form.get(key, type=int) and request.args.get(key, type=int):
\* a missing key, or a value int() rejects, gives None
GetInt(raw) == IF raw = <<>> THEN None ELSE ParseInt(raw)

\* ------------------------------------------------------------------- dates
RECURSIVE split(_, _)
\* str.split(sep) for a one-character separator
split(s, sep) ==
  IF \A i \in DOMAIN s : s[i] # sep THEN <<s>>
  ELSE LET k == CHOOSE i \in DOMAIN s :
                  s[i] = sep /\ \A j \in 1..(i - 1) : s[j] # sep
       IN <<SubSeq(s, 1, k - 1)>> \o split(SubSeq(s, k + 1, Len(s)), sep)

IsLeap(y) == (y % 4 = 0 /\ y % 100 # 0) \/ y % 400 = 0

DaysInMonth(y, m) ==
  IF m = 2 THEN (IF IsLeap(y) THEN 29 ELSE 28)
  ELSE IF m \in {4, 6, 9, 11} THEN 30 ELSE 31

\* datetime.date(y, m, d) accepts these and raises ValueError otherwise
ValidDate(y, m, d) ==
  /\ y \in 1..9999
  /\ m \in 1..12
  /\ d \in 1..DaysInMonth(y, m)

\* a date is <<year, month, day>>
parse_date(s) ==
  IF s = <<>> THEN None
  ELSE LET parts == split(s, "-")
       IN IF Len(parts) # 3 THEN None
          ELSE LET y == ParseInt(parts[1])
                   m == ParseInt(parts[2])
                   d == ParseInt(parts[3])
               IN IF y = None \/ m = None \/ d = None THEN None
                  ELSE IF ValidDate(Get(y), Get(m), Get(d))
                       THEN Some(<<Get(y), Get(m), Get(d)>>)
                       ELSE None

RECURSIVE ZeroPad(_, _)
\* n in decimal, w digits wide
ZeroPad(n, w) ==
  IF w = 0 THEN <<>>
  ELSE ZeroPad(n \div 10, w - 1) \o <<DigitChars[(n % 10) + 1]>>

\* d.strftime("%Y%m%d")
fmt(d) == ZeroPad(d[1], 4) \o ZeroPad(d[2], 2) \o ZeroPad(d[3], 2)

\* d1 < d2 on dates
DateLess(d1, d2) ==
  \/ d1[1] < d2[1]
  \/ d1[1] = d2[1] /\ d1[2] < d2[2]
  \/ d1[1] = d2[1] /\ d1[2] = d2[2] /\ d1[3] < d2[3]

\* -------------------------------------------------------------------- LIKE
RECURSIVE Like(_, _)
\* SQL LIKE as SQLite (the default DATABASE_URL) evaluates it: % matches any
\* run of characters, _ any one character, ASCII letters match either case
Like(s, p) ==
  IF p = <<>> THEN s = <<>>
  ELSE IF p[1] = "%"
       THEN Like(s, Tail(p)) \/ (s # <<>> /\ Like(Tail(s), p))
       ELSE /\ s # <<>>
            /\ (p[1] = "_" \/ LowerChar(p[1]) = LowerChar(s[1]))
            /\ Like(Tail(s), Tail(p))

\* Column.contains(q): column LIKE '%' || q || '%'
contains(column, q) == Like(column, <<"%">> \o q \o <<"%">>)

\* round(total / n) for n > 0: Python rounds a half to the even neighbour
round_div(total, n) ==
  LET q == total \div n
      r == total % n
  IN IF 2 * r < n THEN q
     ELSE IF 2 * r > n THEN q + 1
     ELSE IF q % 2 = 0 THEN q ELSE q + 1

\* ------------------------------------------------------------------ tables
\* users[i], givers[i], categories[i], gifts[i] is the row with id = i

\* The names of lines 113-114, one string per character, each character
\* written by its reading: shokuhin (food), keshouhin (cosmetics),
\* nichiyouhin (daily goods), sonota (other); chichi (father), haha (mother).
base_categories == << <<"shoku", "hin">>, <<"ke", "shou", "hin">>,
                      <<"nichi", "you", "hin">>, <<"so", "no", "ta">> >>
base_givers == << <<"chichi">>, <<"haha">> >>

generate_password_hash(pw) == [method |-> "pbkdf2", of |-> pw]

\* User.check_password
check_password(user, pw) == user.password_hash = generate_password_hash(pw)

\* User.query.filter_by(email=email).first(): the id, 0 when there is none
UserByEmail(email) ==
  IF \E i \in DOMAIN users : users[i].email = email
  THEN CHOOSE i \in DOMAIN users : users[i].email = email
  ELSE 0

\* Giver.query.filter_by(user_id=u), Category.query.filter_by(user_id=u)
GiversOf(u) == {i \in DOMAIN givers : givers[i].user_id = u}
CategoriesOf(u) == {i \in DOMAIN categories : categories[i].user_id = u}

\* the Gift.giver and Gift.category relationships: the row the foreign key
\* names, None when the key is NULL or names no row (SQLite does not
\* enforce the foreign key)
GiverOfGift(g) ==
  IF g.giver_id # None /\ Get(g.giver_id) \in DOMAIN givers
  THEN Some(Get(g.giver_id)) ELSE None

CategoryOfGift(g) ==
  IF g.category_id # None /\ Get(g.category_id) \in DOMAIN categories
  THEN Some(Get(g.category_id)) ELSE None

\* ---------------------------------------------------------------- requests
Workers == 1..MaxInFlight

IdleWorker ==
  [at |-> "idle", op |-> "", user |-> 0,
   existing_cat |-> {}, existing_giver |-> {}]

\* all requests so far have been answered
Idle == \A w \in Workers : pc[w].at = "idle"

\* worker w takes the next request of a server of k workers
Takes(w, k) ==
  /\ w \in 1..k
  /\ pc[w].at = "idle"
  /\ \A v \in 1..(w - 1) : pc[v].at # "idle"

Redirect(endpoint, category, message) ==
  [status |-> 302, location |-> endpoint,
   flash |-> IF category = "" THEN <<>> ELSE <<category, message>>]

Render(template, status, category, message) ==
  [status |-> status, template |-> template,
   flash |-> IF category = "" THEN <<>> ELSE <<category, message>>]

Answer(request, response) ==
  /\ last' = request
  /\ resp' = response

Init ==
  /\ users = <<>>
  /\ givers = <<>>
  /\ categories = <<>>
  /\ gifts = <<>>
  /\ seeded = {}
  /\ sessions = {}
  /\ pc = [w \in Workers |-> IdleWorker]
  /\ last = [op |-> "", user |-> 0]
  /\ resp = [status |-> 0]

\* ---------------------------------------------------- register, login, logout
\* POST /register up to login_user; ensure_initial_master follows in steps
RegisterPost(k, email_raw, password) ==
  LET email == lower(strip(email_raw))
      request == [op |-> "register", user |-> 0]
  IN \E w \in Workers :
       /\ Takes(w, k)
       /\ IF email = <<>> \/ password = <<>>
          THEN /\ Answer(request, Redirect("register", "error",
                                           "enter email and password"))
               /\ UNCHANGED <<users, pc>>
          ELSE IF UserByEmail(email) # 0
          THEN /\ Answer(request, Redirect("register", "error",
                                           "email already registered"))
               /\ UNCHANGED <<users, pc>>
          ELSE /\ users' = Append(users,
                     [email |-> email,
                      password_hash |-> generate_password_hash(password)])
               /\ pc' = [pc EXCEPT ![w] =
                     [IdleWorker EXCEPT !.at = "read_cat", !.op = "register",
                                        !.user = Len(users) + 1]]
               /\ UNCHANGED <<last, resp>>
       /\ UNCHANGED <<givers, categories, gifts, seeded, sessions>>

\* POST /login up to login_user
LoginPost(k, email_raw, password) ==
  LET email == lower(strip(email_raw))
      user == UserByEmail(email)
  IN \E w \in Workers :
       /\ Takes(w, k)
       /\ IF user # 0 /\ check_password(users[user], password)
          THEN /\ pc' = [pc EXCEPT ![w] =
                     [IdleWorker EXCEPT !.at = "read_cat", !.op = "login",
                                        !.user = user]]
               /\ UNCHANGED <<last, resp>>
          ELSE /\ Answer([op |-> "login", user |-> 0],
                         Render("login.html", 200, "error",
                                "wrong email or password"))
               /\ UNCHANGED pc
       /\ UNCHANGED <<users, givers, categories, gifts, seeded, sessions>>

\* ensure_initial_master, line 116
EnsureReadCategories(w) ==
  /\ pc[w].at = "read_cat"
  /\ pc' = [pc EXCEPT ![w].at = "read_giver",
                      ![w].existing_cat =
                         {categories[i].name : i \in CategoriesOf(pc[w].user)}]
  /\ UNCHANGED <<users, givers, categories, gifts, seeded, sessions, last, resp>>

\* ensure_initial_master, line 117
EnsureReadGivers(w) ==
  /\ pc[w].at = "read_giver"
  /\ pc' = [pc EXCEPT ![w].at = "commit",
                      ![w].existing_giver =
                         {givers[i].name : i \in GiversOf(pc[w].user)}]
  /\ UNCHANGED <<users, givers, categories, gifts, seeded, sessions, last, resp>>

\* the base names the loops of lines 120-127 add
Missing(base, existing) == SelectSeq(base, LAMBDA name : name \notin existing)

\* ensure_initial_master, lines 119-129, and the rest of the request: the
\* redirect to home carries the session cookie login_user set
EnsureCommit(w) ==
  LET u == pc[w].user
      cats == Missing(base_categories, pc[w].existing_cat)
      gvs == Missing(base_givers, pc[w].existing_giver)
  IN /\ pc[w].at = "commit"
     /\ categories' = categories \o
          [i \in 1..Len(cats) |-> [user_id |-> u, name |-> cats[i]]]
     /\ givers' = givers \o
          [i \in 1..Len(gvs) |-> [user_id |-> u, name |-> gvs[i], contact |-> None]]
     /\ seeded' = seeded
          \cup {<<"category", Len(categories) + i>> : i \in 1..Len(cats)}
          \cup {<<"giver", Len(givers) + i>> : i \in 1..Len(gvs)}
     /\ sessions' = sessions \cup {u}
     /\ pc' = [pc EXCEPT ![w] = IdleWorker]
     /\ Answer([op |-> pc[w].op, user |-> u],
               Redirect("home", "success",
                        IF pc[w].op = "register" THEN "registered"
                        ELSE "logged in"))
     /\ UNCHANGED <<users, gifts>>

\* GET /logout
Logout(u) ==
  /\ u \in sessions
  /\ sessions' = sessions \ {u}
  /\ Answer([op |-> "logout", user |-> u],
            Redirect("login", "success", "logged out"))
  /\ UNCHANGED <<users, givers, categories, gifts, seeded, pc>>

\* ------------------------------------------------------- givers, categories
\* rows a user added through POST /givers and POST /categories
ExtraRows ==
  Cardinality(({"giver"} \X DOMAIN givers \cup {"category"} \X DOMAIN categories)
              \ seeded)

\* POST /givers
GiversPost(u, name_raw, contact_raw) ==
  LET name == strip(name_raw)
      contact == strip(contact_raw)
  IN /\ u \in sessions
     /\ name = <<>> \/ ExtraRows < MaxExtraRows
     /\ givers' = IF name # <<>>
                  THEN Append(givers, [user_id |-> u, name |-> name,
                                       contact |-> Some(contact)])
                  ELSE givers
     /\ Answer([op |-> "givers", user |-> u],
               Redirect("givers", IF name # <<>> THEN "success" ELSE "",
                        "giver added"))
     /\ UNCHANGED <<users, categories, gifts, seeded, sessions, pc>>

\* POST /categories
CategoriesPost(u, name_raw) ==
  LET name == strip(name_raw)
  IN /\ u \in sessions
     /\ name = <<>> \/ ExtraRows < MaxExtraRows
     /\ categories' = IF name # <<>>
                      THEN Append(categories, [user_id |-> u, name |-> name])
                      ELSE categories
     /\ Answer([op |-> "categories", user |-> u],
               Redirect("categories", IF name # <<>> THEN "success" ELSE "",
                        "category added"))
     /\ UNCHANGED <<users, givers, gifts, seeded, sessions, pc>>

\* ------------------------------------------------------------------- gifts
On == <<"o", "n">>

\* the Gift(...) of lines 161-172
NewGift(u, form, today) ==
  [user_id |-> u,
   title |-> strip(form.title),
   memo |-> strip(form.memo),
   giver_id |-> GetInt(form.giver_id),
   category_id |-> GetInt(form.category_id),
   received_date |-> IF parse_date(form.received_date) # None
                     THEN Get(parse_date(form.received_date)) ELSE today,
   thank_you_sent |-> (form.thank_you_sent = On),
   return_due_date |-> parse_date(form.return_due_date),
   return_done |-> (form.return_done = On),
   amount_yen |-> GetInt(form.amount_yen)]

\* the form page of gift_new and gift_edit with the user's givers and
\* categories (their order_by(name) is left out: a set of ids)
RenderForm(template, status, category, message, u) ==
  [status |-> status, template |-> template,
   flash |-> IF category = "" THEN <<>> ELSE <<category, message>>,
   givers |-> GiversOf(u), categories |-> CategoriesOf(u)]

BlankTitleAccepted(title) == FALSE

\* `if not title`, line 152
BlankTitle(title) == title = <<>>

\* POST /gifts/new
GiftNewPost(u, form, today) ==
  LET request == [op |-> "gift_new", method |-> "POST", user |-> u, form |-> form]
  IN /\ u \in sessions
     /\ BlankTitle(strip(form.title)) \/ Len(gifts) < MaxGifts
     /\ IF BlankTitle(strip(form.title))
        THEN /\ gifts' = gifts
             /\ Answer(request, RenderForm("gift_new.html", 400, "error",
                                           "title is required", u))
        ELSE /\ gifts' = Append(gifts, NewGift(u, form, today))
             /\ Answer(request, Redirect("gifts", "success", "gift added"))
     /\ UNCHANGED <<users, givers, categories, seeded, sessions, pc>>

FirstById(gift_id, u) ==
  IF gift_id \in DOMAIN gifts THEN Some(gift_id) ELSE None

\* Gift.query.filter_by(id=gift_id, user_id=u).first(): None is the 404 of
\* first_or_404
FirstOwned(gift_id, u) ==
  IF gift_id \in DOMAIN gifts /\ gifts[gift_id].user_id = u
  THEN Some(gift_id) ELSE None

\* the errorhandler(404)
not_found == [status |-> 404, template |-> "404.html", flash |-> <<>>]

\* the assignments of lines 250-258
EditedGift(gift, form) ==
  [user_id |-> gift.user_id,
   title |-> IF strip(form.title) # <<>> THEN strip(form.title) ELSE gift.title,
   memo |-> strip(form.memo),
   giver_id |-> GetInt(form.giver_id),
   category_id |-> GetInt(form.category_id),
   received_date |-> IF parse_date(form.received_date) # None
                     THEN Get(parse_date(form.received_date))
                     ELSE gift.received_date,
   thank_you_sent |-> (form.thank_you_sent = On),
   return_due_date |-> parse_date(form.return_due_date),
   return_done |-> (form.return_done = On),
   amount_yen |-> GetInt(form.amount_yen)]

\* POST /gifts/<gift_id>/edit
GiftEditPost(u, gift_id, form) ==
  LET request == [op |-> "gift_edit", method |-> "POST", user |-> u,
                  gift_id |-> gift_id, form |-> form]
      found == FirstOwned(gift_id, u)
  IN /\ u \in sessions
     /\ IF found = None
        THEN /\ gifts' = gifts
             /\ Answer(request, not_found)
        ELSE /\ gifts' = [gifts EXCEPT ![Get(found)] = EditedGift(@, form)]
             /\ Answer(request, Redirect("gifts", "success", "updated"))
     /\ UNCHANGED <<users, givers, categories, seeded, sessions, pc>>

\* GET /gifts/<gift_id>/edit
GiftEditGet(u, gift_id) ==
  LET request == [op |-> "gift_edit", method |-> "GET", user |-> u,
                  gift_id |-> gift_id]
      found == FirstOwned(gift_id, u)
  IN /\ u \in sessions
     /\ IF found = None
        THEN Answer(request, not_found)
        ELSE Answer(request,
                    [status |-> 200, template |-> "gift_form.html",
                     flash |-> <<>>, mode |-> "edit", gift |-> Get(found),
                     givers |-> GiversOf(u), categories |-> CategoriesOf(u)])
     /\ UNCHANGED <<users, givers, categories, gifts, seeded, sessions, pc>>

\* --------------------------------------------------------------- gift list
\* the request.args reads of lines 187-193
ParsedArgs(args) ==
  [q |-> strip(args.q),
   selected_giver_id |-> GetInt(args.giver_id),
   selected_category_id |-> GetInt(args.category_id),
   only_todo |-> (args.todo = <<"1">>),
   min_amount |-> GetInt(args.min_amount),
   max_amount |-> GetInt(args.max_amount),
   amount_only |-> (args.amount_only = <<"1">>)]

\* `if selected_giver_id:` on an Optional[int]: None and 0 are both false
Truthy(o) == o # None /\ Get(o) # 0

OpenObligationIgnoringDone(g) == g.return_due_date # None

\* (Gift.return_done == False) & (Gift.return_due_date != None)
OpenObligation(g) == g.return_done = FALSE /\ g.return_due_date # None

\* lines 205-210
AmountFilter(g, f) ==
  /\ (f.amount_only \/ f.min_amount # None \/ f.max_amount # None)
       => g.amount_yen # None
  /\ f.min_amount # None
       => (g.amount_yen # None /\ Get(g.amount_yen) >= Get(f.min_amount))
  /\ f.max_amount # None
       => (g.amount_yen # None /\ Get(g.amount_yen) <= Get(f.max_amount))

\* the WHERE clause lines 195-210 build, on one row
Selected(g, u, f) ==
  /\ g.user_id = u
  /\ f.q # <<>> => contains(g.title, f.q)
  /\ Truthy(f.selected_giver_id) => g.giver_id = f.selected_giver_id
  /\ Truthy(f.selected_category_id) => g.category_id = f.selected_category_id
  /\ f.only_todo => OpenObligation(g)
  /\ AmountFilter(g, f)

\* the ids of the rows of qset
QuerySet(u, f) == {i \in DOMAIN gifts : Selected(gifts[i], u, f)}

\* order_by(Gift.received_date.desc()): the orders the database may return
\* the rows in; it says nothing on rows of one received date
OrderByReceivedDesc(S) ==
  {p \in Perms(S) :
     \A i, j \in DOMAIN p :
        i < j => ~DateLess(gifts[p[i]].received_date, gifts[p[j]].received_date)}

AmountsNullAsZero(list) ==
  [k \in DOMAIN list |->
     IF gifts[list[k]].amount_yen = None THEN 0 ELSE Get(gifts[list[k]].amount_yen)]

\* line 217: the amounts of the listed gifts that have one, in list order
Amounts(list) ==
  LET has == SelectSeq(list, LAMBDA i : gifts[i].amount_yen # None)
  IN [k \in DOMAIN has |-> Get(gifts[has[k]].amount_yen)]

CategoryTotalsNullCategoryBucket(list) ==
  [n \in {<<>>} \cup {categories[c].name : c \in DOMAIN categories} |->
     SumSeq(Amounts(SelectSeq(list, LAMBDA i :
        IF CategoryOfGift(gifts[i]) = None THEN n = <<>>
        ELSE categories[Get(CategoryOfGift(gifts[i]))].name = n)))]

RECURSIVE CategoryTotalsFrom(_, _)
\* the loop of lines 222-224 over what is left of the list; acc is the
\* defaultdict(int), a key appearing with its first +=
CategoryTotalsFrom(list, acc) ==
  IF list = <<>> THEN acc
  ELSE LET g == gifts[list[1]]
           c == CategoryOfGift(g)
       IN IF g.amount_yen # None /\ c # None
          THEN LET name == categories[Get(c)].name
               IN CategoryTotalsFrom(Tail(list),
                    IF name \in DOMAIN acc
                    THEN [acc EXCEPT ![name] = @ + Get(g.amount_yen)]
                    ELSE acc @@ (name :> Get(g.amount_yen)))
          ELSE CategoryTotalsFrom(Tail(list), acc)

\* lines 221-224
CategoryTotals(list) == CategoryTotalsFrom(list, <<>>)

\* the template context of lines 226-242 for the rows in the order `list`
GiftsPage(u, f, list) ==
  [status |-> 200, template |-> "gifts.html", flash |-> <<>>,
   gifts |-> list,
   givers |-> GiversOf(u), categories |-> CategoriesOf(u),
   q |-> f.q, only_todo |-> f.only_todo,
   selected_giver_id |-> f.selected_giver_id,
   selected_category_id |-> f.selected_category_id,
   min_amount |-> f.min_amount, max_amount |-> f.max_amount,
   amount_only |-> f.amount_only,
   total_amount |-> IF Amounts(list) # <<>> THEN SumSeq(Amounts(list)) ELSE 0,
   avg_amount |-> IF Amounts(list) # <<>>
                  THEN Some(round_div(SumSeq(Amounts(list)), Len(Amounts(list))))
                  ELSE None,
   category_totals |-> CategoryTotals(list)]

\* GET /gifts
Gifts(u, args) ==
  /\ u \in sessions
  /\ \E list \in OrderByReceivedDesc(QuerySet(u, ParsedArgs(args))) :
       Answer([op |-> "gifts", user |-> u, args |-> args],
              GiftsPage(u, ParsedArgs(args), list))
  /\ UNCHANGED <<users, givers, categories, gifts, seeded, sessions, pc>>

\* ----------------------------------------------------------- calendar feed
RECURSIVE Decimal(_)
\* str(n) for n >= 0
Decimal(n) ==
  IF n < 10 THEN <<DigitChars[n + 1]>>
  ELSE Decimal(n \div 10) \o <<DigitChars[(n % 10) + 1]>>

\* a line of the feed is <<its fixed head, the text interpolated after it>>
Line(head, text) == <<head, text>>

\* f"giftlog-{g.id}@local"
Uid(id) == <<"giftlog-">> \o Decimal(id) \o <<"@local">>

\* lines 361-374 for one gift; the words before the title and around the
\* names are one string each (henrei ToDo: return-gift to-do, okurinushi:
\* giver, kategori: category)
Event(id, now_stamp) ==
  LET g == gifts[id]
      summary == <<"henrei ToDo: ">> \o g.title
      desc == <<"okurinushi: ">>
              \o (IF GiverOfGift(g) # None
                  THEN givers[Get(GiverOfGift(g))].name ELSE <<>>)
              \o <<" / kategori: ">>
              \o (IF CategoryOfGift(g) # None
                  THEN categories[Get(CategoryOfGift(g))].name ELSE <<>>)
      due == fmt(Get(g.return_due_date))
  IN << Line("BEGIN:VEVENT", <<>>),
        Line("UID:", Uid(id)),
        Line("DTSTAMP:", now_stamp),
        Line("SUMMARY:", escape_ics(summary)),
        Line("DESCRIPTION:", escape_ics(desc)),
        Line("DTSTART;VALUE=DATE:", due),
        Line("DTEND;VALUE=DATE:", due),
        Line("END:VEVENT", <<>>) >>

RECURSIVE Events(_, _)
Events(list, now_stamp) ==
  IF list = <<>> THEN <<>>
  ELSE Event(list[1], now_stamp) \o Events(Tail(list), now_stamp)

\* lines 342-346: the rows of the feed
FeedRows(u) ==
  {i \in DOMAIN gifts :
     gifts[i].user_id = u /\ OpenObligation(gifts[i])}

\* lines 351-382 for the rows in the order `list`; the body is the lines,
\* joined by CRLF in the code
Feed(list, now_stamp) ==
  [status |-> 200,
   content_type |-> "text/calendar; charset=utf-8",
   content_disposition |-> "attachment; filename=giftlog.ics",
   lines |-> << Line("BEGIN:VCALENDAR", <<>>),
                Line("VERSION:2.0", <<>>),
                Line("PRODID:-//GiftLog//JP", <<>>),
                Line("CALSCALE:GREGORIAN", <<>>),
                Line("METHOD:PUBLISH", <<>>) >>
              \o Events(list, now_stamp)
              \o << Line("END:VCALENDAR", <<>>) >>]

\* GET /calendar.ics; the query has no ORDER BY, so the rows come in any order
CalendarFeed(u, now_stamp) ==
  /\ u \in sessions
  /\ \E list \in Perms(FeedRows(u)) :
       Answer([op |-> "calendar_feed", user |-> u], Feed(list, now_stamp))
  /\ UNCHANGED <<users, givers, categories, gifts, seeded, sessions, pc>>

\* escape_ics on a text of its own
EscapeIcs(text) ==
  /\ last.op = "escape_ics" /\ last.text = text
  /\ resp.status = 0
  /\ resp' = [status |-> 1, text |-> escape_ics(text)]
  /\ UNCHANGED <<users, givers, categories, gifts, seeded, sessions, pc, last>>

\* ------------------------------------------------------------------ inputs
Emails == {<<>>, <<" ", "A">>, <<"b">>}
Passwords == {<<>>, <<"p">>}
MasterNames == {<<>>, <<" ", "shoku", "hin">>}
GiverNames == {<<>>, <<"haha", " ">>}

\* "2024-05-01", "2024-06-01", "2024-02-30"
D1 == <<"2", "0", "2", "4", "-", "0", "5", "-", "0", "1">>
D2 == <<"2", "0", "2", "4", "-", "0", "6", "-", "0", "1">>
BadDate == <<"2", "0", "2", "4", "-", "0", "2", "-", "3", "0">>

\* date.today() and datetime.utcnow() at the request
Todays == {<<2024, 6, 1>>}
NowStamps == {<<"20240601T000000Z">>}

GiftForm(title, memo, giver_id, category_id, received_date, thank_you_sent, return_due_date, return_done, amount_yen) ==
  [title |-> title, memo |-> memo, giver_id |-> giver_id,
   category_id |-> category_id, received_date |-> received_date,
   thank_you_sent |-> thank_you_sent, return_due_date |-> return_due_date,
   return_done |-> return_done, amount_yen |-> amount_yen]

\* forms of the create and edit pages: a full one whose ids name the first
\* giver and the fifth category, and two with a title that is blank or
\* missing, an impossible date and an amount that is no number
MainForms ==
  { GiftForm(<<" ", "a", ",", "b", " ">>, <<" ", "m">>, <<"1">>, <<"5">>,
             D1, On, D1, <<>>, <<"1", "0", "0", "0">>),
    GiftForm(<<" ">>, <<>>, <<>>, <<"1">>, BadDate, <<>>, <<>>, On, <<"x">>),
    GiftForm(<<>>, <<>>, <<>>, <<"1">>, BadDate, <<>>, <<>>, On, <<"x">>) }

\* forms that fill the list: amounts present and absent, categories 1 and 5
\* (the same name under two ids once two users exist), two gifts received
\* the same day, obligations open, done and absent
FilterForms ==
  { GiftForm(<<"a">>, <<>>, <<"1">>, <<"1">>, D1, <<>>, D1, <<>>,
             <<"1", "0", "0", "0">>),
    GiftForm(<<"A", "b">>, <<>>, <<>>, <<"5">>, D1, <<>>, D2, On,
             <<"5", "0", "0">>),
    GiftForm(<<"b">>, <<>>, <<"2">>, <<"1">>, <<>>, <<>>, D2, <<>>, <<>>) }

\* and a gift with an amount and no category
QueryForms ==
  FilterForms \cup
  { GiftForm(<<"c">>, <<>>, <<"1">>, <<>>, D2, <<>>, <<>>, <<>>,
             <<"5", "0", "0">>) }

\* every combination of the seven query parameters over these raw values
FilterArgs ==
  [q : {<<>>, <<" ", "a">>},
   giver_id : {<<>>, <<"0">>, <<"1">>},
   category_id : {<<>>, <<"1">>},
   todo : {<<>>, <<"1">>},
   min_amount : {<<>>, <<"5", "0", "0">>},
   max_amount : {<<>>, <<"5", "0", "0">>},
   amount_only : {<<>>, <<"1">>}]

NoArgs ==
  [q |-> <<>>, giver_id |-> <<>>, category_id |-> <<>>, todo |-> <<>>,
   min_amount |-> <<>>, max_amount |-> <<>>, amount_only |-> <<>>]

\* the list unfiltered and under one filter at a time
QueryArgs ==
  { NoArgs,
    [NoArgs EXCEPT !.q = <<"b">>],
    [NoArgs EXCEPT !.category_id = <<"5">>],
    [NoArgs EXCEPT !.todo = <<"1">>],
    [NoArgs EXCEPT !.amount_only = <<"1">>],
    [NoArgs EXCEPT !.max_amount = <<"5", "0", "0">>] }

\* the ids a request may name: those in use and one past them
GiftIds == 1..(MaxGifts + 1)

EscAlphabet == {BS, NL, ",", ";", "n", "a"}
Texts == UNION {[1..k -> EscAlphabet] : k \in 0..MaxLen}

\* ---------------------------------------------------------- specifications
\* the steps of ensure_initial_master, shared by every server
EnsureSteps ==
  \/ \E w \in Workers : EnsureReadCategories(w)
  \/ \E w \in Workers : EnsureReadGivers(w)
  \/ \E w \in Workers : EnsureCommit(w)

\* a threaded server: up to MaxInFlight requests inside register and login
NextAuth ==
  \/ \E e \in Emails, p \in Passwords : RegisterPost(MaxInFlight, e, p)
  \/ \E e \in Emails, p \in Passwords : LoginPost(MaxInFlight, e, p)
  \/ EnsureSteps
  \/ \E u \in DOMAIN users, n \in MasterNames : CategoriesPost(u, n)
  \/ \E u \in DOMAIN users, n \in GiverNames : GiversPost(u, n, <<" ">>)

SpecAuth == Init /\ [][NextAuth]_vars

\* one request at a time: registration, login and logout, creating and
\* editing gifts
Next ==
  \/ \E e \in Emails, p \in Passwords : RegisterPost(1, e, p)
  \/ \E e \in Emails, p \in Passwords : LoginPost(1, e, p)
  \/ EnsureSteps
  \/ Idle /\ \E u \in DOMAIN users : Logout(u)
  \/ Idle /\ \E u \in DOMAIN users, form \in MainForms, today \in Todays :
               GiftNewPost(u, form, today)
  \/ Idle /\ \E u \in DOMAIN users, id \in GiftIds, form \in MainForms :
               GiftEditPost(u, id, form)
  \/ Idle /\ \E u \in DOMAIN users, id \in GiftIds : GiftEditGet(u, id)

Spec == Init /\ [][Next]_vars

\* A page read is taken from a state a write (or Init) left.  Its answer is a
\* function of the tables and the request alone, so the states reached are
\* those reached when reads also follow reads.
Fresh == last.op \notin {"gifts", "calendar_feed"}

\* one request at a time: registration, creating gifts, the list and the
\* calendar feed
NextQuery ==
  \/ \E e \in Emails, p \in Passwords : RegisterPost(1, e, p)
  \/ EnsureSteps
  \/ Idle /\ \E u \in DOMAIN users, form \in QueryForms, today \in Todays :
               GiftNewPost(u, form, today)
  \/ Idle /\ Fresh /\ \E u \in DOMAIN users, args \in QueryArgs : Gifts(u, args)
  \/ Idle /\ Fresh /\ \E u \in DOMAIN users, now \in NowStamps :
               CalendarFeed(u, now)

SpecQuery == Init /\ [][NextQuery]_vars

\* one request at a time: registration, creating gifts, the list under every
\* combination of the filters
NextFilter ==
  \/ \E e \in Emails, p \in Passwords : RegisterPost(1, e, p)
  \/ EnsureSteps
  \/ Idle /\ \E u \in DOMAIN users, form \in FilterForms, today \in Todays :
               GiftNewPost(u, form, today)
  \/ Idle /\ Fresh /\ \E u \in DOMAIN users, args \in FilterArgs : Gifts(u, args)

SpecFilter == Init /\ [][NextFilter]_vars

\* escape_ics applied to each text of Texts
InitEsc ==
  /\ users = <<>>
  /\ givers = <<>>
  /\ categories = <<>>
  /\ gifts = <<>>
  /\ seeded = {}
  /\ sessions = {}
  /\ pc = [w \in Workers |-> IdleWorker]
  /\ \E text \in Texts : last = [op |-> "escape_ics", user |-> 0, text |-> text]
  /\ resp = [status |-> 0]

NextEsc == \E text \in Texts : EscapeIcs(text)

SpecEsc == InitEsc /\ [][NextEsc]_vars

\* ------------------------------------------------------------------ claims
RECURSIVE SumAmountsOf(_)
\* the sum of amount_yen over a set of gift ids that all have an amount
SumAmountsOf(S) ==
  IF S = {} THEN 0
  ELSE LET i == CHOOSE x \in S : TRUE
       IN Get(gifts[i].amount_yen) + SumAmountsOf(S \ {i})

\* the list without its k-th entry
Without(list, k) == SubSeq(list, 1, k - 1) \o SubSeq(list, k + 1, Len(list))

\* text occurs in title, letters of either case alike
OccursIn(text, title) ==
  \E k \in 0..(Len(title) - Len(text)) :
     lower(SubSeq(title, k + 1, k + Len(text))) = lower(text)

\* yyyymmdd of a date with a four-digit year
DateStamp(d) == Decimal(d[1] * 10000 + d[2] * 100 + d[3])

\* C1: every Giver and Category a gift resolves to through giver_id and
\* category_id is owned by the gift's owner.
C1_ResolvedRowsOwnedByGiftOwner ==
  \A i \in DOMAIN gifts :
     /\ GiverOfGift(gifts[i]) # None
          => givers[Get(GiverOfGift(gifts[i]))].user_id = gifts[i].user_id
     /\ CategoryOfGift(gifts[i]) # None
          => categories[Get(CategoryOfGift(gifts[i]))].user_id = gifts[i].user_id

\* C2: a gift_edit request, GET or POST, for a gift id that is not stored or
\* is owned by another user is answered with the one not-found response and
\* changes no table.
C2_MissingOrForeignEditIsNotFound ==
  [][LET u == last'.user
         id == last'.gift_id
     IN (/\ last'.op = "gift_edit"
         /\ id \notin DOMAIN gifts \/ gifts[id].user_id # u
         /\ IF last'.method = "GET" THEN GiftEditGet(u, id)
            ELSE GiftEditPost(u, id, last'.form))
        => (resp' = not_found /\ UNCHANGED db)]_vars

C2_Witness ==
  /\ last.op = "gift_edit"
  /\ last.method = "POST"
  /\ last.gift_id \in DOMAIN gifts
  /\ gifts[last.gift_id].user_id # last.user
  /\ resp = not_found

\* C9: a gift_new POST whose title is missing or blank after trimming is
\* answered 400 with the form and leaves the gifts as they were, and after
\* every step every stored gift has a title that is not empty.
C9_BlankTitleRejected ==
  [][/\ (/\ last'.op = "gift_new"
          /\ strip(last'.form.title) = <<>>
          /\ \E today \in Todays :
                GiftNewPost(last'.user, last'.form, today))
         => /\ resp'.status = 400
            /\ resp'.template = "gift_new.html"
            /\ gifts' = gifts
     /\ \A i \in DOMAIN gifts' : gifts'[i].title # <<>>]_vars

C9_Witness ==
  /\ last.op = "gift_new"
  /\ strip(last.form.title) = <<>>
  /\ resp.status = 400
  /\ \E i \in DOMAIN gifts : gifts[i].user_id = last.user

\* C10: ensure_initial_master has created, for every user, at most one
\* Category per base category name and at most one Giver per base giver name.
C10_NoDuplicateMaster ==
  \A u \in DOMAIN users :
     /\ \A k \in DOMAIN base_categories :
          Cardinality({i \in CategoriesOf(u) :
                         /\ categories[i].name = base_categories[k]
                         /\ <<"category", i>> \in seeded}) <= 1
     /\ \A k \in DOMAIN base_givers :
          Cardinality({i \in GiversOf(u) :
                         /\ givers[i].name = base_givers[k]
                         /\ <<"giver", i>> \in seeded}) <= 1

\* C7 as stated: unescaping the escaped text gives the text back, for every
\* text.
C7_RoundTripEveryText ==
  resp.status = 1 => unescape_ics(resp.text) = last.text

\* C7, amended: unescaping the escaped text gives the text back, for every
\* text in which no backslash is directly followed by the letter n.
C7_RoundTrip ==
  (/\ resp.status = 1
   /\ \A k \in 1..(Len(last.text) - 1) :
         ~(last.text[k] = BS /\ last.text[k + 1] = "n"))
  => unescape_ics(resp.text) = last.text

C7_Witness ==
  /\ resp.status = 1
  /\ {BS, NL, ",", ";"} \subseteq Range(last.text)
  /\ resp.text # last.text
  /\ unescape_ics(resp.text) = last.text

\* C3: the list for user U holds exactly the gifts of U that satisfy every
\* supplied filter: the title contains the text, giver_id and category_id
\* equal the supplied ids, the obligation is open when todo is set, and the
\* amount is present and within the supplied bounds when any of min_amount,
\* max_amount and amount_only is supplied.
C3_ListIsTheGiftsMeetingEveryFilter ==
  last.op = "gifts" =>
    LET f == ParsedArgs(last.args)
        Meets(g) ==
          /\ g.user_id = last.user
          /\ OccursIn(f.q, g.title)
          /\ f.selected_giver_id # None => g.giver_id = f.selected_giver_id
          /\ f.selected_category_id # None
               => g.category_id = f.selected_category_id
          /\ f.only_todo => (g.return_due_date # None /\ ~g.return_done)
          /\ (f.amount_only \/ f.min_amount # None \/ f.max_amount # None)
               => g.amount_yen # None
          /\ (f.min_amount # None /\ g.amount_yen # None)
               => Get(g.amount_yen) >= Get(f.min_amount)
          /\ (f.max_amount # None /\ g.amount_yen # None)
               => Get(g.amount_yen) <= Get(f.max_amount)
    IN Range(resp.gifts) = {i \in DOMAIN gifts : Meets(gifts[i])}

\* C8: the list is in descending order of received date, and gifts of one
\* received date are in ascending order of id.
C8_TiesInIdOrder ==
  last.op = "gifts" =>
    \A i, j \in DOMAIN resp.gifts :
       i < j =>
         LET a == gifts[resp.gifts[i]]
             b == gifts[resp.gifts[j]]
         IN \/ DateLess(b.received_date, a.received_date)
            \/ (a.received_date = b.received_date
                /\ resp.gifts[i] < resp.gifts[j])

\* C4: the calendar feed of U is one VCALENDAR envelope holding one VEVENT
\* for each gift of U with a return-due date that is not done, and no other;
\* these gifts are the list under todo alone, and DTSTART and DTEND of each
\* event are the gift's return-due date.
C4_FeedIsTheOpenObligations ==
  last.op = "calendar_feed" =>
    LET lines == resp.lines
        open == {i \in DOMAIN gifts :
                   /\ gifts[i].user_id = last.user
                   /\ gifts[i].return_due_date # None
                   /\ gifts[i].return_done = FALSE}
        begins == {k \in DOMAIN lines : lines[k][1] = "BEGIN:VEVENT"}
    IN /\ Cardinality(begins) = Cardinality(open)
       /\ \A i \in open :
            \E k \in begins :
               /\ lines[k + 1] = <<"UID:", Uid(i)>>
               /\ lines[k + 5] = <<"DTSTART;VALUE=DATE:",
                                   DateStamp(Get(gifts[i].return_due_date))>>
               /\ lines[k + 6] = <<"DTEND;VALUE=DATE:",
                                   DateStamp(Get(gifts[i].return_due_date))>>
               /\ lines[k + 7][1] = "END:VEVENT"
       /\ {k \in DOMAIN lines : lines[k][1] = "BEGIN:VCALENDAR"} = {1}
       /\ {k \in DOMAIN lines : lines[k][1] = "END:VCALENDAR"} = {Len(lines)}
       /\ open = QuerySet(last.user, ParsedArgs([NoArgs EXCEPT !.todo = <<"1">>]))

C4_Witness ==
  /\ last.op = "calendar_feed"
  /\ \E k \in DOMAIN resp.lines : resp.lines[k][1] = "BEGIN:VEVENT"
  /\ \E i \in DOMAIN gifts :
        /\ gifts[i].user_id = last.user
        /\ Len(resp.lines) = 14
        /\ resp.lines[7] # <<"UID:", Uid(i)>>

\* C5: total_amount of the list is the sum of the amounts of the listed gifts
\* that have one, 0 with avg_amount absent when none has; the list without
\* one gift that has an amount totals that amount less, and the list without
\* its gifts that have no amount has the same total_amount and avg_amount.
C5_TotalIsTheSumOfTheAmounts ==
  last.op = "gifts" =>
    LET list == resp.gifts
        f == ParsedArgs(last.args)
        withAmount == {i \in Range(list) : gifts[i].amount_yen # None}
        amountBearing == SelectSeq(list, LAMBDA i : gifts[i].amount_yen # None)
    IN /\ Cardinality(Range(list)) = Len(list)
       /\ resp.total_amount = SumAmountsOf(withAmount)
       /\ (withAmount = {}) = (resp.avg_amount = None)
       /\ withAmount = {} => resp.total_amount = 0
       /\ \A k \in DOMAIN list :
            gifts[list[k]].amount_yen # None =>
              GiftsPage(last.user, f, Without(list, k)).total_amount
                = resp.total_amount - Get(gifts[list[k]].amount_yen)
       /\ GiftsPage(last.user, f, amountBearing).total_amount = resp.total_amount
       /\ GiftsPage(last.user, f, amountBearing).avg_amount = resp.avg_amount

C5_Witness ==
  /\ last.op = "gifts"
  /\ resp.total_amount = 1000
  /\ resp.avg_amount = Some(1000)
  /\ Len(resp.gifts) = 2

\* C6: the keys of category_totals are the names of the categories of the
\* listed gifts that have a category and an amount, each key maps to the sum
\* of the amounts of those gifts under that name, and a gift with no
\* category or no amount adds no key and no value.
C6_CategoryTotalsByName ==
  last.op = "gifts" =>
    LET counted == {i \in Range(resp.gifts) :
                      /\ gifts[i].amount_yen # None
                      /\ gifts[i].category_id # None
                      /\ Get(gifts[i].category_id) \in DOMAIN categories}
        NameOf(i) == categories[Get(gifts[i].category_id)].name
    IN /\ DOMAIN resp.category_totals = {NameOf(i) : i \in counted}
       /\ \A i \in counted :
            resp.category_totals[NameOf(i)]
              = SumAmountsOf({j \in counted : NameOf(j) = NameOf(i)})

C6_Witness ==
  /\ last.op = "gifts"
  /\ \E i, j \in Range(resp.gifts) :
        /\ gifts[i].category_id = Some(1)
        /\ gifts[j].category_id = Some(5)
        /\ DOMAIN resp.category_totals = {base_categories[1]}
        /\ resp.category_totals[base_categories[1]] = 1500

====
